---- MODULE Spec2Model ----
(***************************************************************************)
(* Work Master (src/App.tsx): the progression and reward engine of the     *)
(* clicker game, as the state machine the App component implements.        *)
(*                                                                         *)
(* One action per event handler, timer callback or effect of the           *)
(* component.  A handler together with the re-render and the effects its   *)
(* state updates trigger is one atomic step (JavaScript runs a callback to *)
(* completion and React flushes the updates of a discrete event before the *)
(* next event is dispatched).                                              *)
(*                                                                         *)
(* A button can be activated whenever it is rendered and not disabled: the *)
(* roulette modal is a sibling overlay inside renderWorking (lines         *)
(* 453-517), it does not unmount or disable the buttons behind it, which   *)
(* stay reachable from the keyboard.                                       *)
(*                                                                         *)
(* Money is kept in whole currency units: the catalog below has integral   *)
(* rates, and potential = click*20 + sec*100 is then a multiple of 20, so  *)
(* every multiplier of the roulette (tenths) gives a whole amount.         *)
(***************************************************************************)
EXTENDS Integers, Sequences, FiniteSets, TLC

VARIABLES
    gameState,          \* useState<GameState>            (line 9)
    player,             \* useState<PlayerState>          (lines 15-36)
    isRouletteOpen,     \* useState(false)                (line 39)
    isSpinning,         \* useState(false)                (line 40)
    timeToNextSpin,     \* useState(0), set by updateTimer (lines 42, 105)
    spinTimeouts,       \* pending setTimeout callbacks of handleSpinRoulette
                        \* (line 200), oldest first, each with the closure it
                        \* captured and the time it was scheduled
    now,                \* Date.now()
    outcome,            \* history: how the last user intent ended
    lastClaimAt         \* history: Date.now() of the last credited roulette
                        \* reward (0: none yet); restartGame does not touch it

vars == <<gameState, player, isRouletteOpen, isSpinning, timeToNextSpin,
          spinTimeouts, now, outcome, lastClaimAt>>

----------------------------------------------------------------------------
(* Bounds of the model *)

\* totalMoneyEarned is capped: an earning that would pass it is not taken.
MaxMoney == 6

\* The clock visits the first MaxInstants + 1 of the instants StartTime,
\* StartTime + SpinDelay, StartTime + ROULETTE_COOLDOWN,
\* StartTime + ROULETTE_COOLDOWN + SpinDelay, ...
MaxInstants == 3

\* No more than this many spin timeouts are kept pending.
MaxPending == 2

----------------------------------------------------------------------------
(* Program constants *)

ROULETTE_COOLDOWN == 10 * 60 * 1000

\* setTimeout(..., 4000) of handleSpinRoulette
SpinDelay == 4000

\* rewards = [0.1, 0.2, 0.5, 1, 2, 5, 10], in tenths
rewards == <<1, 2, 5, 10, 20, 50, 100>>

\* Date.now() when the component mounts: epoch milliseconds, far past one
\* cooldown after 0.
StartTime == 2 * ROULETTE_COOLDOWN

Instants ==
    { StartTime + (k \div 2) * ROULETTE_COOLDOWN + (k % 2) * SpinDelay :
        k \in 0..MaxInstants }

----------------------------------------------------------------------------
(* The catalog (./constants, not part of the sources at hand): three jobs, *)
(* the last one terminal and without upgrades.  Upgrade ids are distinct   *)
(* across jobs so that an upgrade carried over to another job shows.       *)
(* An absent bonusClick / bonusSec is 0: the code adds a bonus only when   *)
(* it is truthy (lines 119, 128).                                          *)

JobList ==
    << [id |-> 0, baseClick |-> 1, baseSec |-> 0, minMoneyToResign |-> 3,
        upgrades |-> << [id |-> "a", cost |-> 2, bonusClick |-> 1, bonusSec |-> 0],
                        [id |-> "b", cost |-> 3, bonusClick |-> 0, bonusSec |-> 1] >>],
       [id |-> 1, baseClick |-> 2, baseSec |-> 1, minMoneyToResign |-> 5,
        upgrades |-> << [id |-> "c", cost |-> 3, bonusClick |-> 1, bonusSec |-> 1] >>],
       [id |-> 2, baseClick |-> 3, baseSec |-> 1, minMoneyToResign |-> 0,
        upgrades |-> << >>] >>

\* JOBS[i], i counted from 0 as in the code
JOBS == [i \in 0..(Len(JobList) - 1) |-> JobList[i + 1]]

JobsLength == Len(JobList)

----------------------------------------------------------------------------
(* Helpers on arrays *)

\* Array.prototype.includes
Includes(s, x) == \E i \in 1..Len(s) : s[i] = x

\* Array.from(new Set([...s, x])): s is duplicate-free, x is appended
\* unless already there
SetAppend(s, x) == IF Includes(s, x) THEN s ELSE Append(s, x)

\* upgrades.find(u => u.id === id): the first match, or none
FindUpgrade(job, id) ==
    LET hits == { i \in 1..Len(job.upgrades) : job.upgrades[i].id = id }
    IN  IF hits = {} THEN [id |-> id, cost |-> 0, bonusClick |-> 0, bonusSec |-> 0]
        ELSE job.upgrades[CHOOSE i \in hits : \A j \in hits : i <= j]

----------------------------------------------------------------------------
(* Progression *)

currentJob == JOBS[player.currentJobIndex]

\* the click bonus of the first purchase only
SumClickBonus_FirstOnly(job, ids) ==
    IF ids = << >> THEN 0 ELSE FindUpgrade(job, Head(ids)).bonusClick

RECURSIVE SumClickBonus(_, _)
SumClickBonus(job, ids) ==
    IF ids = << >> THEN 0
    ELSE FindUpgrade(job, Head(ids)).bonusClick + SumClickBonus(job, Tail(ids))

RECURSIVE SumSecBonus(_, _)
SumSecBonus(job, ids) ==
    IF ids = << >> THEN 0
    ELSE FindUpgrade(job, Head(ids)).bonusSec + SumSecBonus(job, Tail(ids))

\* calculateClickEarnings over a given job and purchase list: the callback
\* closes over currentJob and player.purchasedUpgrades of its render
ClickEarningsOf(job, ids) == job.baseClick + SumClickBonus(job, ids)

SecEarningsOf(job, ids) == job.baseSec + SumSecBonus(job, ids)

calculateClickEarnings == ClickEarningsOf(currentJob, player.purchasedUpgrades)

calculateSecEarnings == SecEarningsOf(currentJob, player.purchasedUpgrades)

----------------------------------------------------------------------------
(* Cooldown *)

Max(a, b) == IF a >= b THEN a ELSE b

\* remaining without the clamp at 0
remaining_NoClamp(t, lastSpinTime) ==
    ROULETTE_COOLDOWN - (t - lastSpinTime)

\* updateTimer: remaining = Math.max(0, ROULETTE_COOLDOWN - (now - lastSpinTime))
remaining(t, lastSpinTime) ==
    LET elapsed == t - lastSpinTime
    IN  Max(0, ROULETTE_COOLDOWN - elapsed)

\* the cooldown effect without its dependency on player.lastSpinTime: the
\* countdown is left to the next interval tick
TimerAfter_NoDependency(newLastSpinTime) == timeToNextSpin

\* the effect on [player.lastSpinTime] calls updateTimer at once when
\* lastSpinTime has changed in the commit
TimerAfter(newLastSpinTime) ==
    IF newLastSpinTime # player.lastSpinTime
    THEN remaining(now, newLastSpinTime)
    ELSE timeToNextSpin

----------------------------------------------------------------------------
FreshPlayer ==
    [ money            |-> 0,
      totalMoneyEarned |-> 0,
      currentJobIndex  |-> 0,
      purchasedUpgrades |-> << >>,
      unlockedJobs     |-> << 0 >>,
      lastSpinTime     |-> 0 ]

\* renderWorking throws (and React, without an error boundary, unmounts the
\* component: no handler, interval or state update is left) when currentJob
\* is undefined or player.purchasedUpgrades is: calculateClickEarnings reads
\* currentJob.baseClick and calls player.purchasedUpgrades.forEach
Unmounted ==
    /\ gameState = "WORKING"
    /\ \/ "currentJobIndex" \notin DOMAIN player
       \/ "purchasedUpgrades" \notin DOMAIN player
       \/ player.currentJobIndex \notin DOMAIN JOBS

\* the WORKING screen is on display
OnWorkingScreen == gameState = "WORKING" /\ ~Unmounted

Init ==
    /\ gameState = "START"
    /\ player = FreshPlayer
    /\ isRouletteOpen = FALSE
    /\ isSpinning = FALSE
    /\ now = StartTime
    /\ timeToNextSpin = remaining(StartTime, 0)
    /\ spinTimeouts = << >>
    /\ outcome = "none"
    /\ lastClaimAt = 0

----------------------------------------------------------------------------
(* Ledger updates: the functional updaters passed to setPlayer *)

\* the updater that forgets the lifetime counter
Earn_MoneyOnly(prev, amount) ==
    [prev EXCEPT !.money = prev.money + amount]

\* prev => ({...prev, money: prev.money + amount,
\*           totalMoneyEarned: prev.totalMoneyEarned + amount})
Earn(prev, amount) ==
    [prev EXCEPT !.money = prev.money + amount,
                 !.totalMoneyEarned = prev.totalMoneyEarned + amount]

\* the model's cap on totalMoneyEarned
Fits(amount) == player.totalMoneyEarned + amount <= MaxMoney

\* the model's cap on a roulette reward: the i-th multiplier is drawn when
\* its reward fits, and the least one (i = 1) also when it does not, so that
\* a pending spin can complete whatever the job it was started in and
\* whatever was earned before
FitsReward(i, wonAmount) ==
    \/ Fits(wonAmount)
    \/ i = 1

----------------------------------------------------------------------------
(* START screen *)

\* onClick of INICIAR CARREIRA
StartCareer ==
    /\ gameState = "START"
    /\ gameState' = "WORKING"
    /\ outcome' = "applied"
    /\ UNCHANGED <<player, isRouletteOpen, isSpinning, timeToNextSpin,
                   spinTimeouts, now, lastClaimAt>>

----------------------------------------------------------------------------
(* WORKING screen: earning *)

handleWorkClick ==
    /\ OnWorkingScreen
    /\ LET earnings == calculateClickEarnings
       IN  /\ Fits(earnings)
           /\ player' = Earn(player, earnings)
    /\ outcome' = "applied"
    /\ UNCHANGED <<gameState, isRouletteOpen, isSpinning, timeToNextSpin,
                   spinTimeouts, now, lastClaimAt>>

\* the passive income interval left running on every screen
PassiveTick_AnyScreen ==
    /\ ~Unmounted
    /\ LET earnings == calculateSecEarnings
       IN  /\ Fits(earnings)
           /\ player' = IF earnings > 0 THEN Earn(player, earnings) ELSE player
    /\ UNCHANGED <<gameState, isRouletteOpen, isSpinning, timeToNextSpin,
                   spinTimeouts, now, outcome, lastClaimAt>>

\* the setInterval callback of the passive income effect; the interval only
\* exists while gameState is WORKING and is rebuilt with the current
\* calculateSecEarnings whenever that changes
PassiveTick ==
    /\ OnWorkingScreen
    /\ LET earnings == calculateSecEarnings
       IN  /\ Fits(earnings)
           /\ player' = IF earnings > 0 THEN Earn(player, earnings) ELSE player
    /\ UNCHANGED <<gameState, isRouletteOpen, isSpinning, timeToNextSpin,
                   spinTimeouts, now, outcome, lastClaimAt>>

----------------------------------------------------------------------------
(* WORKING screen: upgrades *)

isBought(upgrade) == Includes(player.purchasedUpgrades, upgrade.id)

canAfford(upgrade) == player.money >= upgrade.cost

\* buyUpgrade charging the lifetime counter as well
buyUpgrade_ChargesTotal(upgrade) ==
    IF player.money >= upgrade.cost
       /\ ~Includes(player.purchasedUpgrades, upgrade.id)
    THEN /\ player' = [player EXCEPT
                !.money = player.money - upgrade.cost,
                !.totalMoneyEarned = player.totalMoneyEarned - upgrade.cost,
                !.purchasedUpgrades = Append(player.purchasedUpgrades, upgrade.id)]
         /\ outcome' = "applied"
    ELSE /\ player' = player
         /\ outcome' = "rejected-buy"

\* buyUpgrade handing the upgrade over without charging its cost
buyUpgrade_Free(upgrade) ==
    IF player.money >= upgrade.cost
       /\ ~Includes(player.purchasedUpgrades, upgrade.id)
    THEN /\ player' = [player EXCEPT
                !.purchasedUpgrades = Append(player.purchasedUpgrades, upgrade.id)]
         /\ outcome' = "applied"
    ELSE /\ player' = player
         /\ outcome' = "rejected-buy"

\* const buyUpgrade = (upgrade) => { if (...) {...} else { playErrorSound() } }
buyUpgrade(upgrade) ==
    IF player.money >= upgrade.cost
       /\ ~Includes(player.purchasedUpgrades, upgrade.id)
    THEN /\ player' = [player EXCEPT
                !.money = player.money - upgrade.cost,
                !.purchasedUpgrades = Append(player.purchasedUpgrades, upgrade.id)]
         /\ outcome' = "applied"
    ELSE /\ player' = player
         /\ outcome' = "rejected-buy"

\* the upgrade button and buyUpgrade without the funds check
BuyUpgradeClick_NoFundsCheck(k) ==
    /\ OnWorkingScreen
    /\ k \in 1..Len(currentJob.upgrades)
    /\ LET upgrade == currentJob.upgrades[k]
       IN  IF isBought(upgrade)
           THEN player' = player /\ outcome' = "rejected-already-owned"
           ELSE /\ player' = [player EXCEPT
                        !.money = player.money - upgrade.cost,
                        !.purchasedUpgrades =
                            Append(player.purchasedUpgrades, upgrade.id)]
                /\ outcome' = "applied"
    /\ UNCHANGED <<gameState, isRouletteOpen, isSpinning, timeToNextSpin,
                   spinTimeouts, now, lastClaimAt>>

\* the upgrade button and buyUpgrade without the already-owned check
BuyUpgradeClick_NoOwnedCheck(k) ==
    /\ OnWorkingScreen
    /\ k \in 1..Len(currentJob.upgrades)
    /\ LET upgrade == currentJob.upgrades[k]
       IN  IF ~canAfford(upgrade)
           THEN player' = player /\ outcome' = "rejected-insufficient-funds"
           ELSE /\ player' = [player EXCEPT
                        !.money = player.money - upgrade.cost,
                        !.purchasedUpgrades =
                            Append(player.purchasedUpgrades, upgrade.id)]
                /\ outcome' = "applied"
    /\ UNCHANGED <<gameState, isRouletteOpen, isSpinning, timeToNextSpin,
                   spinTimeouts, now, lastClaimAt>>

\* the upgrade button of the current job's k-th upgrade:
\* disabled={isBought || !canAfford} onClick={() => buyUpgrade(upgrade)}
BuyUpgradeClick(k) ==
    /\ OnWorkingScreen
    /\ k \in 1..Len(currentJob.upgrades)
    /\ LET upgrade == currentJob.upgrades[k]
       IN  IF isBought(upgrade)
           THEN player' = player /\ outcome' = "rejected-already-owned"
           ELSE IF ~canAfford(upgrade)
           THEN player' = player /\ outcome' = "rejected-insufficient-funds"
           ELSE buyUpgrade(upgrade)
    /\ UNCHANGED <<gameState, isRouletteOpen, isSpinning, timeToNextSpin,
                   spinTimeouts, now, lastClaimAt>>

----------------------------------------------------------------------------
(* WORKING screen: leaving the job *)

isLastJob == player.currentJobIndex = JobsLength - 1

\* resign leaving the purchases of the old job in place
resign_KeepsUpgrades ==
    /\ gameState' = "CHOOSE_JOB"
    /\ player' = [player EXCEPT
            !.unlockedJobs = SetAppend(player.unlockedJobs,
                                       player.currentJobIndex + 1)]
    /\ outcome' = "applied"

\* resign moving on to the next job by itself
resign_AdvancesJob ==
    /\ gameState' = "CHOOSE_JOB"
    /\ player' = [player EXCEPT
            !.purchasedUpgrades = << >>,
            !.currentJobIndex = player.currentJobIndex + 1,
            !.unlockedJobs = SetAppend(player.unlockedJobs,
                                       player.currentJobIndex + 1)]
    /\ outcome' = "applied"

\* resign keeping the next job as the only unlocked one
resign_ForgetsUnlocked ==
    /\ gameState' = "CHOOSE_JOB"
    /\ player' = [player EXCEPT
            !.purchasedUpgrades = << >>,
            !.unlockedJobs = << player.currentJobIndex + 1 >>]
    /\ outcome' = "applied"

\* const resign = () => {...}: no condition of its own
resign ==
    /\ gameState' = "CHOOSE_JOB"
    /\ player' = [player EXCEPT
            !.purchasedUpgrades = << >>,
            !.unlockedJobs = SetAppend(player.unlockedJobs,
                                       player.currentJobIndex + 1)]
    /\ outcome' = "applied"

\* PEDIR AUMENTO always rendered and never disabled
ResignClick_Unguarded ==
    /\ OnWorkingScreen
    /\ resign
    /\ UNCHANGED <<isRouletteOpen, isSpinning, timeToNextSpin, spinTimeouts,
                   now, lastClaimAt>>

\* PEDIR AUMENTO: rendered only when !isLastJob,
\* disabled={player.money < currentJob.minMoneyToResign}
ResignClick ==
    /\ OnWorkingScreen
    /\ IF isLastJob
       THEN UNCHANGED <<gameState, player>> /\ outcome' = "rejected-terminal-job"
       ELSE IF player.money < currentJob.minMoneyToResign
       THEN UNCHANGED <<gameState, player>> /\ outcome' = "rejected-below-threshold"
       ELSE resign
    /\ UNCHANGED <<isRouletteOpen, isSpinning, timeToNextSpin, spinTimeouts,
                   now, lastClaimAt>>

\* CONCLUIR LEGADO rendered on every job
ConcludeClick_AnyJob ==
    /\ OnWorkingScreen
    /\ gameState' = "END"
    /\ outcome' = "applied"
    /\ UNCHANGED <<player, isRouletteOpen, isSpinning, timeToNextSpin,
                   spinTimeouts, now, lastClaimAt>>

\* CONCLUIR LEGADO: rendered only when isLastJob
ConcludeClick ==
    /\ OnWorkingScreen
    /\ isLastJob
    /\ gameState' = "END"
    /\ outcome' = "applied"
    /\ UNCHANGED <<player, isRouletteOpen, isSpinning, timeToNextSpin,
                   spinTimeouts, now, lastClaimAt>>

----------------------------------------------------------------------------
(* CHOOSE_JOB screen *)

startJob(index) ==
    /\ player' = [player EXCEPT !.currentJobIndex = index]
    /\ gameState' = "WORKING"
    /\ outcome' = "applied"

\* the button of job idx, disabled for the current job only
StartJobClick_NoLockCheck(idx) ==
    /\ gameState = "CHOOSE_JOB"
    /\ idx \in 0..(JobsLength - 1)
    /\ IF player.currentJobIndex = idx
       THEN UNCHANGED <<gameState, player>> /\ outcome' = "rejected-current"
       ELSE startJob(idx)
    /\ UNCHANGED <<isRouletteOpen, isSpinning, timeToNextSpin, spinTimeouts,
                   now, lastClaimAt>>

\* the button of job idx: disabled={!isUnlocked || isCurrent}
StartJobClick(idx) ==
    /\ gameState = "CHOOSE_JOB"
    /\ idx \in 0..(JobsLength - 1)
    /\ LET isUnlocked == Includes(player.unlockedJobs, idx)
           isCurrent  == player.currentJobIndex = idx
       IN  IF ~isUnlocked
           THEN UNCHANGED <<gameState, player>> /\ outcome' = "rejected-locked"
           ELSE IF isCurrent
           THEN UNCHANGED <<gameState, player>> /\ outcome' = "rejected-current"
           ELSE startJob(idx)
    /\ UNCHANGED <<isRouletteOpen, isSpinning, timeToNextSpin, spinTimeouts,
                   now, lastClaimAt>>

----------------------------------------------------------------------------
(* END screen *)

\* restartGame keeping the balance
restartGame_KeepsMoney ==
    /\ gameState = "END"
    /\ player' = [FreshPlayer EXCEPT !.money = player.money]
    /\ gameState' = "START"
    /\ timeToNextSpin' = TimerAfter(0)
    /\ outcome' = "applied"
    /\ UNCHANGED <<isRouletteOpen, isSpinning, spinTimeouts, now, lastClaimAt>>

\* restartGame, followed by the cooldown effect when lastSpinTime changed
restartGame ==
    /\ gameState = "END"
    /\ player' = FreshPlayer
    /\ gameState' = "START"
    /\ timeToNextSpin' = TimerAfter(0)
    /\ outcome' = "applied"
    /\ UNCHANGED <<isRouletteOpen, isSpinning, spinTimeouts, now, lastClaimAt>>

----------------------------------------------------------------------------
(* Roulette *)

\* the roulette trigger of the WORKING screen
OpenRoulette ==
    /\ OnWorkingScreen
    /\ isRouletteOpen' = TRUE
    /\ outcome' = "applied"
    /\ UNCHANGED <<gameState, player, isSpinning, timeToNextSpin, spinTimeouts,
                   now, lastClaimAt>>

\* the close button closing the modal whatever isSpinning is
CloseRoulette_AnyTime ==
    /\ OnWorkingScreen
    /\ isRouletteOpen
    /\ isRouletteOpen' = FALSE
    /\ outcome' = "applied"
    /\ UNCHANGED <<gameState, player, isSpinning, timeToNextSpin, spinTimeouts,
                   now, lastClaimAt>>

\* the close button of the modal: () => !isSpinning && setIsRouletteOpen(false)
CloseRoulette ==
    /\ OnWorkingScreen
    /\ isRouletteOpen
    /\ IF ~isSpinning
       THEN isRouletteOpen' = FALSE /\ outcome' = "applied"
       ELSE isRouletteOpen' = isRouletteOpen /\ outcome' = "rejected-close"
    /\ UNCHANGED <<gameState, player, isSpinning, timeToNextSpin, spinTimeouts,
                   now, lastClaimAt>>

\* the closure the timeout callback keeps: calculateClickEarnings and
\* calculateSecEarnings of the render in which the spin was started
SpinClosure ==
    [ at       |-> now,
      job      |-> player.currentJobIndex,
      upgrades |-> player.purchasedUpgrades ]

\* handleSpinRoulette gated by the countdown alone
handleSpinRoulette_NoSpinningGuard ==
    IF timeToNextSpin > 0
    THEN /\ outcome' = "rejected-cooldown-active"
         /\ UNCHANGED <<isSpinning, spinTimeouts>>
    ELSE /\ Len(spinTimeouts) < MaxPending
         /\ isSpinning' = TRUE
         /\ spinTimeouts' = Append(spinTimeouts, SpinClosure)
         /\ outcome' = "applied"

\* const handleSpinRoulette = () => { if (timeToNextSpin > 0 || isSpinning) return; ... }
\* (the spin button is disabled under the same condition)
handleSpinRoulette ==
    IF timeToNextSpin > 0 \/ isSpinning
    THEN /\ outcome' = IF isSpinning THEN "rejected-in-progress"
                       ELSE "rejected-cooldown-active"
         /\ UNCHANGED <<isSpinning, spinTimeouts>>
    ELSE /\ Len(spinTimeouts) < MaxPending
         /\ isSpinning' = TRUE
         /\ spinTimeouts' = Append(spinTimeouts, SpinClosure)
         /\ outcome' = "applied"

\* the spin button of the modal, rendered while the modal is open on the
\* WORKING screen: disabled={timeToNextSpin > 0 || isSpinning}
SpinClick ==
    /\ OnWorkingScreen
    /\ isRouletteOpen
    /\ handleSpinRoulette
    /\ UNCHANGED <<gameState, player, isRouletteOpen, timeToNextSpin, now,
                   lastClaimAt>>

\* potential evaluated on the job and purchases at the time of the callback
Potential_CurrentRates(c) ==
    calculateClickEarnings * 20 + calculateSecEarnings * 100

\* potential = calculateClickEarnings() * 20 + calculateSecEarnings() * 100,
\* evaluated by the callback on the values of its closure
Potential(c) ==
    ClickEarningsOf(JOBS[c.job], c.upgrades) * 20
    + SecEarningsOf(JOBS[c.job], c.upgrades) * 100

\* wonAmount = potential * randomReward (randomReward in tenths)
WonAmount(c, r) == (Potential(c) * r) \div 10

\* the timeout callback crediting the reward without setIsSpinning(false)
SpinTimeout_KeepsSpinning ==
    /\ ~Unmounted
    /\ spinTimeouts # << >>
    /\ LET c == Head(spinTimeouts)
       IN  /\ now >= c.at + SpinDelay
           /\ \E i \in 1..Len(rewards) :
                LET wonAmount == WonAmount(c, rewards[i])
                IN  /\ FitsReward(i, wonAmount)
                    /\ player' = [Earn(player, wonAmount) EXCEPT !.lastSpinTime = now]
    /\ spinTimeouts' = Tail(spinTimeouts)
    /\ timeToNextSpin' = TimerAfter(now)
    /\ lastClaimAt' = now
    /\ UNCHANGED <<gameState, isRouletteOpen, isSpinning, now, outcome>>

\* the setTimeout callback of handleSpinRoulette, not before its delay, and
\* the cooldown effect its lastSpinTime update triggers
SpinTimeout ==
    /\ ~Unmounted
    /\ spinTimeouts # << >>
    /\ LET c == Head(spinTimeouts)
       IN  /\ now >= c.at + SpinDelay
           /\ \E i \in 1..Len(rewards) :
                LET wonAmount == WonAmount(c, rewards[i])
                IN  /\ FitsReward(i, wonAmount)
                    /\ player' = [Earn(player, wonAmount) EXCEPT !.lastSpinTime = now]
    /\ isSpinning' = FALSE
    /\ spinTimeouts' = Tail(spinTimeouts)
    /\ timeToNextSpin' = TimerAfter(now)
    /\ lastClaimAt' = now
    /\ UNCHANGED <<gameState, isRouletteOpen, now, outcome>>

\* updateTimer, as called by setInterval(updateTimer, 1000)
updateTimer ==
    /\ ~Unmounted
    /\ timeToNextSpin' = remaining(now, player.lastSpinTime)
    /\ UNCHANGED <<gameState, player, isRouletteOpen, isSpinning, spinTimeouts,
                   now, outcome, lastClaimAt>>

----------------------------------------------------------------------------
(* Time passes *)

Advance ==
    /\ \E t \in Instants : t > now /\ now' = t
    /\ UNCHANGED <<gameState, player, isRouletteOpen, isSpinning, timeToNextSpin,
                   spinTimeouts, outcome, lastClaimAt>>

----------------------------------------------------------------------------
Next ==
    \/ StartCareer
    \/ handleWorkClick
    \/ PassiveTick
    \/ \E k \in 1..2 : BuyUpgradeClick(k)
    \/ ResignClick
    \/ ConcludeClick
    \/ \E idx \in 0..(JobsLength - 1) : StartJobClick(idx)
    \/ restartGame
    \/ OpenRoulette
    \/ CloseRoulette
    \/ SpinClick
    \/ SpinTimeout
    \/ updateTimer
    \/ Advance

Spec == Init /\ [][Next]_vars

\* the browser runs a timeout callback that is due, and time passes
SpecFair == Spec /\ WF_vars(SpinTimeout) /\ WF_vars(Advance)

----------------------------------------------------------------------------
(* Construction from a saved game: the initializer of the player state *)

PlayerFields == DOMAIN FreshPlayer

\* a game saved in the middle of the second job
SavedPlayer ==
    [ money            |-> 3,
      totalMoneyEarned |-> 5,
      currentJobIndex  |-> 1,
      purchasedUpgrades |-> << "c" >>,
      unlockedJobs     |-> << 0, 1 >>,
      lastSpinTime     |-> StartTime - SpinDelay ]

\* the object with the fields fs of p only
Restrict(p, fs) == [ f \in fs |-> p[f] ]

\* what localStorage.getItem('work_clicker_save') can return: nothing, a
\* text JSON.parse throws on, the text "null", or the text of an object
SavedBlobs ==
    { [kind |-> "absent"],
      [kind |-> "unparsable"],
      [kind |-> "null"],
      [kind |-> "object", value |-> FreshPlayer],
      [kind |-> "object", value |-> SavedPlayer],
      [kind |-> "object",
       value |-> Restrict(SavedPlayer, PlayerFields \ {"lastSpinTime"})],
      [kind |-> "object",
       value |-> [SavedPlayer EXCEPT !.currentJobIndex = JobsLength]],
      [kind |-> "object", value |-> Restrict(SavedPlayer, {})] }

\* the initializer of useState<PlayerState>: {...parsed, lastSpinTime:
\* parsed.lastSpinTime || 0} when a text was saved and parses (reading
\* null.lastSpinTime throws, inside the try), the fresh state otherwise
Load(blob) ==
    IF blob.kind = "object"
    THEN [ f \in (DOMAIN blob.value) \cup {"lastSpinTime"} |->
             IF f = "lastSpinTime"
             THEN IF f \in DOMAIN blob.value THEN blob.value[f] ELSE 0
             ELSE blob.value[f] ]
    ELSE FreshPlayer

\* the state after construction when blob was the saved game
InitFrom(blob) ==
    /\ gameState = "START"
    /\ player = Load(blob)
    /\ isRouletteOpen = FALSE
    /\ isSpinning = FALSE
    /\ now = StartTime
    /\ timeToNextSpin = remaining(StartTime, Load(blob).lastSpinTime)
    /\ spinTimeouts = << >>
    /\ outcome = "none"
    /\ lastClaimAt = Load(blob).lastSpinTime

InitLoad == \E blob \in SavedBlobs : InitFrom(blob)

SpecLoad == InitLoad /\ [][Next]_vars

----------------------------------------------------------------------------
(* Properties *)

Range(s) == { s[i] : i \in 1..Len(s) }

NoDuplicates(s) == \A i, j \in 1..Len(s) : s[i] = s[j] => i = j

\* the step is restartGame
IsReset == gameState = "END" /\ gameState' = "START"

\* C1: in every reachable state money >= 0.
C1_MoneyNonNegative == player.money >= 0

\* an upgrade was bought with the whole balance
C1_Witness ==
    /\ player.money = 0
    /\ player.purchasedUpgrades # << >>

\* C2 as stated: no step of the engine, reset included, lowers
\* totalMoneyEarned.
C2_TotalNeverDecreases ==
    [][player'.totalMoneyEarned >= player.totalMoneyEarned]_vars

\* C2, amended: every step other than reset leaves totalMoneyEarned at least
\* as large as before, spending included; reset sets it to 0.
C2_TotalNonDecreasingUntilReset ==
    [][IF IsReset
       THEN player'.totalMoneyEarned = 0
       ELSE player'.totalMoneyEarned >= player.totalMoneyEarned]_vars

\* money has been spent and the lifetime counter kept what was earned
C2_Witness ==
    /\ player.purchasedUpgrades # << >>
    /\ player.totalMoneyEarned > player.money

\* C3: an id is in purchasedUpgrades at most once, and a buyUpgrade of an
\* upgrade already owned is rejected as already owned with the ledger
\* unchanged, so its cost is deducted once only.
C3_BuyOnce ==
    /\ [](NoDuplicates(player.purchasedUpgrades))
    /\ [][\A k \in 1..2 :
            (BuyUpgradeClick(k) /\ isBought(currentJob.upgrades[k]))
            => /\ player' = player
               /\ outcome' = "rejected-already-owned"]_vars

\* a second buyUpgrade of an owned upgrade was rejected, with money enough
\* to pay for it again
C3_Witness ==
    /\ outcome = "rejected-already-owned"
    /\ gameState = "WORKING"
    /\ \E k \in 1..Len(currentJob.upgrades) :
         /\ isBought(currentJob.upgrades[k])
         /\ canAfford(currentJob.upgrades[k])

\* C4: a successful resign from job i empties purchasedUpgrades, adds i+1 to
\* unlockedJobs keeping what was there, moves to CHOOSE_JOB, and leaves
\* currentJobIndex, money, totalMoneyEarned and lastSpinTime as they were.
C4_ResignEffect ==
    [][(ResignClick /\ gameState' # gameState)
       => /\ gameState' = "CHOOSE_JOB"
          /\ player'.purchasedUpgrades = << >>
          /\ Includes(player'.unlockedJobs, player.currentJobIndex + 1)
          /\ Range(player.unlockedJobs) \subseteq Range(player'.unlockedJobs)
          /\ player'.currentJobIndex = player.currentJobIndex
          /\ player'.money = player.money
          /\ player'.totalMoneyEarned = player.totalMoneyEarned
          /\ player'.lastSpinTime = player.lastSpinTime]_vars

\* just after a resign from job 1, with a spin credited before it
C4_Witness ==
    /\ gameState = "CHOOSE_JOB"
    /\ player.currentJobIndex = 1
    /\ Includes(player.unlockedJobs, 2)
    /\ player.lastSpinTime # 0

\* C5: resign takes effect only with money >= minMoneyToResign on a job that
\* is not the last; below the threshold or on the last job it changes
\* neither the player nor the screen, and no index past the catalog is ever
\* unlocked.
C5_ResignGuard ==
    /\ [](\A i \in 1..Len(player.unlockedJobs) :
            player.unlockedJobs[i] \in 0..(JobsLength - 1))
    /\ [][ResignClick
          => IF player.money >= currentJob.minMoneyToResign /\ ~isLastJob
             THEN gameState' = "CHOOSE_JOB"
             ELSE /\ player' = player
                  /\ gameState' = gameState
                  /\ outcome' \in {"rejected-below-threshold",
                                   "rejected-terminal-job"}]_vars
    /\ [][(gameState' = "CHOOSE_JOB" /\ gameState # "CHOOSE_JOB")
          => /\ player.money >= currentJob.minMoneyToResign
             /\ ~isLastJob]_vars

\* a resign was refused on the last job
C5_Witness ==
    /\ outcome = "rejected-terminal-job"
    /\ gameState = "WORKING"
    /\ isLastJob

\* C6: a startJob that changes currentJobIndex leaves purchasedUpgrades
\* empty, also when the job chosen is a lower one unlocked earlier.
C6_StartJobClearsUpgrades ==
    [][\A idx \in 0..(JobsLength - 1) :
         (StartJobClick(idx) /\ player'.currentJobIndex # player.currentJobIndex)
         => player'.purchasedUpgrades = << >>]_vars

\* back on job 0 by choice, with job 2 unlocked
C6_Witness ==
    /\ gameState = "WORKING"
    /\ player.currentJobIndex = 0
    /\ Includes(player.unlockedJobs, 2)

UpgradeIds(job) == { job.upgrades[k].id : k \in 1..Len(job.upgrades) }

\* C7: in every reachable state purchasedUpgrades holds only ids of upgrades
\* of JOBS[currentJobIndex].
C7_UpgradesOfCurrentJob ==
    Range(player.purchasedUpgrades) \subseteq UpgradeIds(currentJob)

\* an upgrade of job 1 is owned, after job 0 was left
C7_Witness ==
    /\ player.currentJobIndex = 1
    /\ player.purchasedUpgrades # << >>

\* C8 as stated: a claim is accepted only when the full cooldown has passed
\* since the last credited claim, whatever happened in between.
C8_CooldownBetweenClaims ==
    \A i \in 1..Len(spinTimeouts) :
        \/ lastClaimAt = 0
        \/ spinTimeouts[i].at - lastClaimAt >= ROULETTE_COOLDOWN

\* C8, amended: a claim is accepted only while remaining(now, lastSpinTime)
\* is 0, so that two consecutive claims with no reset between them are a
\* full cooldown apart (t2 - T1 >= 600000); a reset sets lastSpinTime to 0
\* and lets the next claim be accepted at once.
C8_CooldownSinceLastSpinTime ==
    \A i \in 1..Len(spinTimeouts) :
        /\ remaining(spinTimeouts[i].at, player.lastSpinTime) = 0
        /\ (player.lastSpinTime = lastClaimAt /\ lastClaimAt # 0)
            => spinTimeouts[i].at - lastClaimAt >= ROULETTE_COOLDOWN

\* a second claim has been accepted, no reset since the first
C8_Witness ==
    /\ spinTimeouts # << >>
    /\ lastClaimAt # 0
    /\ player.lastSpinTime = lastClaimAt

\* canClaim(now, lastSpinTime) of the cooldown: remaining == 0
canClaim(t, lastSpinTime) == remaining(t, lastSpinTime) = 0

ProbeOffsets ==
    {0, 1, SpinDelay, ROULETTE_COOLDOWN - 1, ROULETTE_COOLDOWN,
     ROULETTE_COOLDOWN + 1, 2 * ROULETTE_COOLDOWN}

\* canClaim is false on [lastSpinTime, lastSpinTime + 600000) and true from
\* lastSpinTime + 600000 on
CanClaimWindow ==
    \A l \in {0} \cup Instants : \A d \in ProbeOffsets :
        /\ d < ROULETTE_COOLDOWN => ~canClaim(l + d, l)
        /\ d >= ROULETTE_COOLDOWN => canClaim(l + d, l)

\* C9 as stated: canClaim has that window, and whenever the spin button can
\* be pressed the gate of the handler (timeToNextSpin = 0) equals
\* canClaim(now, lastSpinTime).
C9_GateEqualsCanClaim ==
    /\ CanClaimWindow
    /\ (gameState = "WORKING" /\ isRouletteOpen)
        => ((timeToNextSpin = 0) <=> canClaim(now, player.lastSpinTime))

\* C9, amended: canClaim has that window; the gate of the handler is the
\* remaining time as of the last recomputation, which is never less than
\* remaining(now, lastSpinTime): when the gate is open canClaim holds, but
\* the gate may still be closed after canClaim has become true, until the
\* next updateTimer.
C9_GateImpliesCanClaim ==
    /\ CanClaimWindow
    /\ timeToNextSpin >= remaining(now, player.lastSpinTime)
    /\ (timeToNextSpin = 0) => canClaim(now, player.lastSpinTime)

\* a spin was refused for the countdown although the cooldown is over
C9_Witness ==
    /\ outcome = "rejected-cooldown-active"
    /\ gameState = "WORKING"
    /\ isRouletteOpen
    /\ timeToNextSpin > 0
    /\ player.lastSpinTime # 0
    /\ canClaim(now, player.lastSpinTime)

\* C10: while isSpinning a further spin attempt is rejected and changes
\* nothing, so at most one completion is pending, and lastSpinTime is
\* updated only by the one completion of an accepted spin, which credits
\* money and totalMoneyEarned with the same amount.
C10_OneClaimInFlight ==
    /\ [](Len(spinTimeouts) <= 1 /\ (isSpinning <=> spinTimeouts # << >>))
    /\ [][(SpinClick /\ isSpinning)
          => /\ UNCHANGED <<gameState, player, isRouletteOpen, isSpinning,
                            timeToNextSpin, spinTimeouts>>
             /\ outcome' = "rejected-in-progress"]_vars
    /\ [][(player'.lastSpinTime # player.lastSpinTime /\ ~IsReset)
          => /\ isSpinning /\ ~isSpinning'
             /\ spinTimeouts' = << >>
             /\ player'.money - player.money
                  = player'.totalMoneyEarned - player.totalMoneyEarned]_vars

\* a spin attempt was refused during the spinning window although the
\* countdown is at 0
C10_Witness ==
    /\ outcome = "rejected-in-progress"
    /\ isSpinning
    /\ timeToNextSpin = 0
    /\ gameState = "WORKING"
    /\ isRouletteOpen

\* C11: a claim commits when it is accepted: as long as an accepted claim is
\* known to the program (its completion pending), lastSpinTime is the time
\* of its acceptance, the reward being credited in the accepting step.
C11_CommitsAtClaimTime ==
    \A i \in 1..Len(spinTimeouts) :
        player.lastSpinTime = spinTimeouts[i].at

\* the multipliers 0.1, 0.2, 0.5, 1, 2, 5, 10, in tenths
MultiplierTenths == {1, 2, 5, 10, 20, 50, 100}

\* C12: the completion of a claim adds to money and to totalMoneyEarned the
\* same amount, (clickEarnings*20 + perSecondEarnings*100) * m for an m of
\* {0.1, 0.2, 0.5, 1, 2, 5, 10}, the rates being those of the job and the
\* purchased upgrades at the time the claim was accepted.
C12_RewardAmount ==
    [][SpinTimeout
       => LET c == Head(spinTimeouts)
              amount == player'.money - player.money
              click == ClickEarningsOf(JOBS[c.job], c.upgrades)
              sec == SecEarningsOf(JOBS[c.job], c.upgrades)
          IN  /\ \E m \in MultiplierTenths :
                    amount * 10 = (click * 20 + sec * 100) * m
              /\ player'.totalMoneyEarned - player.totalMoneyEarned = amount]_vars

\* a reward has just been credited, an upgrade being owned
C12_Witness ==
    /\ lastClaimAt = now
    /\ player.lastSpinTime = now
    /\ ~isSpinning
    /\ player.purchasedUpgrades # << >>
    /\ player.money >= 4

\* C13: off the WORKING screen money and totalMoneyEarned are changed by no
\* passive tick: only a reset or the completion of a spin changes them
\* there.
C13_PassiveOnlyWhileWorking ==
    [][(/\ gameState # "WORKING"
        /\ \/ player'.money # player.money
           \/ player'.totalMoneyEarned # player.totalMoneyEarned)
       => (IsReset \/ SpinTimeout)]_vars

\* on the job selection screen with a job that pays per second
C13_Witness ==
    /\ gameState = "CHOOSE_JOB"
    /\ calculateSecEarnings > 0
    /\ Fits(calculateSecEarnings)

\* C14: the step into END and every step that stays in END leave every
\* field of PlayerState as it was.
C14_EndFreezesPlayer ==
    [][gameState' = "END" => player' = player]_vars

\* C15: gameState changes only from START to WORKING, from WORKING to
\* CHOOSE_JOB by a resign with money >= minMoneyToResign on a job that is
\* not the last, from CHOOSE_JOB to WORKING by startJob, from WORKING to END
\* on the last job, and to START by reset.
C15_LedgerEdges ==
    [][gameState' # gameState
       => \/ gameState = "START" /\ gameState' = "WORKING"
          \/ /\ gameState = "WORKING" /\ gameState' = "CHOOSE_JOB"
             /\ ResignClick
             /\ player.money >= currentJob.minMoneyToResign
             /\ ~isLastJob
          \/ /\ gameState = "CHOOSE_JOB" /\ gameState' = "WORKING"
             /\ \E idx \in 0..(JobsLength - 1) : StartJobClick(idx)
          \/ /\ gameState = "WORKING" /\ gameState' = "END"
             /\ isLastJob
          \/ gameState' = "START" /\ restartGame]_vars

\* back on the START screen after a reset
C15_Witness ==
    /\ gameState = "START"
    /\ outcome = "applied"

\* C16: currentJobIndex is always in unlockedJobs: it is changed only to an
\* unlocked index (or by reset), and a startJob on a locked index is
\* rejected with the player and the screen unchanged.
C16_CurrentJobUnlocked ==
    /\ [](Includes(player.unlockedJobs, player.currentJobIndex))
    /\ [][\A idx \in 0..(JobsLength - 1) :
            (StartJobClick(idx) /\ ~Includes(player.unlockedJobs, idx))
            => /\ player' = player
               /\ gameState' = gameState
               /\ outcome' = "rejected-locked"]_vars
    /\ [][player'.currentJobIndex # player.currentJobIndex
          => \/ IsReset
             \/ Includes(player.unlockedJobs, player'.currentJobIndex)]_vars

\* a locked job was asked for on the job selection screen
C16_Witness ==
    /\ outcome = "rejected-locked"
    /\ gameState = "CHOOSE_JOB"
    /\ ~Includes(player.unlockedJobs, JobsLength - 1)

\* C17: currentJobIndex is an index of the catalog in every state of the
\* program constructed from a saved game, a saved index out of the
\* catalog's bounds included.
C17_JobIndexInBounds ==
    "currentJobIndex" \in DOMAIN player
    => player.currentJobIndex \in 0..(JobsLength - 1)

\* C18 as stated: unlockedJobs always contains 0 and no step removes an
\* index from it.
C18_UnlockedOnlyGrows ==
    /\ [](Includes(player.unlockedJobs, 0))
    /\ [][Range(player.unlockedJobs) \subseteq Range(player'.unlockedJobs)]_vars

\* C18: unlockedJobs always contains 0 and no step other than reset removes
\* an index from it.
C18_UnlockedGrowsUntilReset ==
    /\ [](Includes(player.unlockedJobs, 0))
    /\ [][IsReset
          \/ Range(player.unlockedJobs) \subseteq Range(player'.unlockedJobs)]_vars

\* two resignations have unlocked every job
C18_Witness ==
    /\ Range(player.unlockedJobs) = 0..(JobsLength - 1)
    /\ player.currentJobIndex = JobsLength - 1

\* a blob that is absent, unparsable, or not an object with every field of
\* PlayerState other than lastSpinTime
Malformed(blob) ==
    \/ blob.kind # "object"
    \/ ~((PlayerFields \ {"lastSpinTime"}) \subseteq DOMAIN blob.value)

\* a blob with every field of PlayerState but lastSpinTime
LacksOnlyLastSpinTime(blob) ==
    /\ blob.kind = "object"
    /\ DOMAIN blob.value = PlayerFields \ {"lastSpinTime"}

\* C19: the state constructed from an absent or malformed blob has the
\* fresh PlayerState, and the state constructed from a blob that lacks
\* lastSpinTime only has lastSpinTime = 0 and the blob's other fields.
C19_LoadRecovers ==
    \A blob \in SavedBlobs :
        InitFrom(blob)
        => /\ Malformed(blob) => player = FreshPlayer
           /\ LacksOnlyLastSpinTime(blob)
              => player = [ f \in PlayerFields |->
                              IF f = "lastSpinTime" THEN 0 ELSE blob.value[f] ]

\* C20: on the START screen, where reset leaves the program and no intent
\* other than starting the career exists, PlayerState is the fresh one.
C20_FreshAfterReset ==
    gameState = "START" => player = FreshPlayer

\* the purchase lists that hold exactly the ids of S, each once
ListsOf(S) ==
    { ids \in [1..Cardinality(S) -> S] : Range(ids) = S }

\* the sum of the given bonus field over the first n upgrades of a job
\* whose id is in S
RECURSIVE BonusOver(_, _, _, _)
BonusOver(job, S, n, field) ==
    IF n = 0 THEN 0
    ELSE BonusOver(job, S, n - 1, field)
         + (IF job.upgrades[n].id \in S THEN job.upgrades[n][field] ELSE 0)

\* C21: for every job J and every set S of ids of J's upgrades, held in any
\* order, clickEarnings is J.baseClick plus the bonusClick of the upgrades of
\* J in S and perSecondEarnings is J.baseSec plus their bonusSec; neither
\* decreases when S grows; and the rates of the current state are those of
\* the current job and of the set of purchased upgrades.
C21_EarningsFormula ==
    /\ \A j \in DOMAIN JOBS : \A S \in SUBSET UpgradeIds(JOBS[j]) :
          LET J == JOBS[j]
              click == J.baseClick + BonusOver(J, S, Len(J.upgrades), "bonusClick")
              sec == J.baseSec + BonusOver(J, S, Len(J.upgrades), "bonusSec")
          IN  /\ \A ids \in ListsOf(S) :
                    /\ ClickEarningsOf(J, ids) = click
                    /\ SecEarningsOf(J, ids) = sec
              /\ \A T \in SUBSET S : \A ids \in ListsOf(S) : \A less \in ListsOf(T) :
                    /\ ClickEarningsOf(J, less) <= ClickEarningsOf(J, ids)
                    /\ SecEarningsOf(J, less) <= SecEarningsOf(J, ids)
    /\ LET S == Range(player.purchasedUpgrades)
           n == Len(currentJob.upgrades)
       IN  /\ calculateClickEarnings
                = currentJob.baseClick + BonusOver(currentJob, S, n, "bonusClick")
           /\ calculateSecEarnings
                = currentJob.baseSec + BonusOver(currentJob, S, n, "bonusSec")

\* both upgrades of the first job are owned and both rates are raised
C21_Witness ==
    /\ gameState = "WORKING"
    /\ Len(player.purchasedUpgrades) = 2
    /\ calculateClickEarnings > currentJob.baseClick
    /\ calculateSecEarnings > currentJob.baseSec

\* C22: a buy of an upgrade of the current job that is not owned and is
\* affordable lowers money by its cost and adds its id to purchasedUpgrades,
\* leaving totalMoneyEarned, currentJobIndex, unlockedJobs, lastSpinTime and
\* the ledger state unchanged; any other buy changes no field; and an id
\* enters purchasedUpgrades only by such a buy of an upgrade of the current
\* job.
C22_BuyUpgradeEffect ==
    /\ [][\A k \in 1..Len(currentJob.upgrades) :
            BuyUpgradeClick(k)
            => LET upgrade == currentJob.upgrades[k]
               IN  IF /\ ~Includes(player.purchasedUpgrades, upgrade.id)
                      /\ player.money >= upgrade.cost
                   THEN /\ player'.money = player.money - upgrade.cost
                        /\ player'.purchasedUpgrades
                             = Append(player.purchasedUpgrades, upgrade.id)
                        /\ player'.totalMoneyEarned = player.totalMoneyEarned
                        /\ player'.currentJobIndex = player.currentJobIndex
                        /\ player'.unlockedJobs = player.unlockedJobs
                        /\ player'.lastSpinTime = player.lastSpinTime
                        /\ gameState' = gameState
                   ELSE /\ player' = player
                        /\ gameState' = gameState]_vars
    /\ [][~(Range(player'.purchasedUpgrades) \subseteq Range(player.purchasedUpgrades))
          => /\ \E k \in 1..Len(currentJob.upgrades) : BuyUpgradeClick(k)
             /\ Range(player'.purchasedUpgrades) \subseteq UpgradeIds(currentJob)]_vars
    /\ [][player'.money < player.money
          => \/ IsReset
             \/ \E k \in 1..Len(currentJob.upgrades) :
                  /\ BuyUpgradeClick(k)
                  /\ player.money >= currentJob.upgrades[k].cost
                  /\ ~Includes(player.purchasedUpgrades, currentJob.upgrades[k].id)]_vars

\* the second upgrade of the first job has just been bought with the whole
\* balance
C22_Witness ==
    /\ gameState = "WORKING"
    /\ outcome = "applied"
    /\ player.purchasedUpgrades = << "b" >>
    /\ player.money = 0
    /\ player.totalMoneyEarned = 3

\* C23: a click adds clickEarnings of the current job and purchases, and a
\* passive tick adds their perSecondEarnings, to money and to
\* totalMoneyEarned alike, the amount being non-negative and every other
\* field of PlayerState and the ledger state being left as they were; every
\* step that raises money raises totalMoneyEarned by as much; and one click
\* in the fresh state of a first job with baseClick = 1 gives money = 1 and
\* totalMoneyEarned = 1.
C23_EarnEffect ==
    /\ [][handleWorkClick
          => LET amount == ClickEarningsOf(JOBS[player.currentJobIndex],
                                           player.purchasedUpgrades)
             IN  /\ amount >= 0
                 /\ player' = [player EXCEPT
                        !.money = player.money + amount,
                        !.totalMoneyEarned = player.totalMoneyEarned + amount]
                 /\ gameState' = gameState]_vars
    /\ [][PassiveTick
          => LET amount == SecEarningsOf(JOBS[player.currentJobIndex],
                                         player.purchasedUpgrades)
             IN  /\ amount >= 0
                 /\ gameState = "WORKING"
                 /\ player' = [player EXCEPT
                        !.money = player.money + amount,
                        !.totalMoneyEarned = player.totalMoneyEarned + amount]
                 /\ gameState' = gameState]_vars
    /\ [][player'.money > player.money
          => player'.totalMoneyEarned - player.totalMoneyEarned
               = player'.money - player.money]_vars
    /\ [][(handleWorkClick /\ player = FreshPlayer /\ JOBS[0].baseClick = 1)
          => player'.money = 1 /\ player'.totalMoneyEarned = 1]_vars

\* one click has been made in the fresh state
C23_Witness ==
    /\ gameState = "WORKING"
    /\ outcome = "applied"
    /\ player = [FreshPlayer EXCEPT !.money = 1, !.totalMoneyEarned = 1]

\* C24: the close button closes the roulette dialog when isSpinning is false
\* and leaves it open, and the spin in progress, when isSpinning is true;
\* isRouletteOpen turns false in no other way; so isSpinning implies
\* isRouletteOpen in every state, that is, isSpinning is false whenever the
\* dialog is closed.
C24_NoCancelWhileSpinning ==
    /\ [](isSpinning => isRouletteOpen)
    /\ [][(CloseRoulette /\ ~isSpinning)
          => ~isRouletteOpen' /\ ~isSpinning']_vars
    /\ [][(CloseRoulette /\ isSpinning)
          => /\ isRouletteOpen' /\ isSpinning'
             /\ spinTimeouts' = spinTimeouts
             /\ player' = player]_vars
    /\ [][(isRouletteOpen /\ ~isRouletteOpen')
          => CloseRoulette /\ ~isSpinning /\ ~isSpinning']_vars

\* the close button was pressed during a spin and the dialog stayed open
C24_Witness ==
    /\ outcome = "rejected-close"
    /\ isSpinning
    /\ isRouletteOpen
    /\ spinTimeouts # << >>

\* the timeout of the spin in progress is due at an instant the model's
\* clock still visits
DueWithinHorizon ==
    /\ spinTimeouts # << >>
    /\ \E t \in Instants : t >= Head(spinTimeouts).at + SpinDelay

\* C25: whenever a spin is in progress (its timeout due within the clock's
\* horizon), a state follows in which isSpinning is false and lastSpinTime
\* is the time of the last credit; and isSpinning turns false only in the
\* step of the timeout callback, which comes SpinDelay or more after the
\* spin was accepted, credits a positive reward and sets lastSpinTime to the
\* time of the step.
C25_SpinCompletes ==
    /\ (isSpinning /\ DueWithinHorizon)
       ~> (~isSpinning /\ player.lastSpinTime = lastClaimAt)
    /\ [][(isSpinning /\ ~isSpinning')
          => /\ SpinTimeout
             /\ now >= Head(spinTimeouts).at + SpinDelay
             /\ player'.money > player.money
             /\ player'.totalMoneyEarned - player.totalMoneyEarned
                  = player'.money - player.money
             /\ player'.lastSpinTime = now]_vars

\* a spin has completed: the flag is down again and the credit is dated
\* SpinDelay or more after the start of the clock
C25_Witness ==
    /\ ~isSpinning
    /\ spinTimeouts = << >>
    /\ lastClaimAt >= StartTime + SpinDelay
    /\ player.lastSpinTime = lastClaimAt
    /\ player.money > 0

\* C26: in every state reached from the fresh PlayerState money is at most
\* totalMoneyEarned.
C26_MoneyAtMostTotal ==
    player.money <= player.totalMoneyEarned

\* money was earned, part of it spent on an upgrade and part of it kept
C26_Witness ==
    /\ player.purchasedUpgrades # << >>
    /\ player.money > 0
    /\ player.money < player.totalMoneyEarned

====
